---- MODULE Spec2Model ----
(***************************************************************************)
(* Model of the price-lookup agent of src/main.go.                         *)
(*                                                                         *)
(* Strings.  A Go string is modelled as a sequence of atoms.  An atom is   *)
(* a TLA+ string standing for a run of characters that the program never   *)
(* looks inside: a literal of the source ("token_source", "CMC could not   *)
(* find market data"), a user-typed run ("btc", "h38" = 38 hex digits) or  *)
(* one character the program does look at (";", ":", "%", "-", ".", a      *)
(* digit, the newline "\n", the blank " ").  Every ";", ":" and newline of *)
(* a modelled string is an atom of its own, so splitting and searching     *)
(* work on atoms the way the Go code works on characters.                  *)
(*                                                                         *)
(* Numbers.  A float64 is modelled as an exact decimal                     *)
(* [kind, neg, mant, scale] = (-1)^neg * mant / 10^scale, or NaN / Inf.    *)
(***************************************************************************)
EXTENDS Integers, Sequences, FiniteSets, TLC

\* ------------------------------------------------------------------------
\* Bounds of the model
\* ------------------------------------------------------------------------
MaxArgLen == 2
MaxChainLen == 1
MaxSymLen == 3
MaxChangeLen == 3

\* ------------------------------------------------------------------------
\* Program constants
\* ------------------------------------------------------------------------
AddrMinLen == 40
StatusOK == 200

\* ------------------------------------------------------------------------
\* Generic string helpers (package strings)
\* ------------------------------------------------------------------------
SeqsUpTo(S, n) == UNION {[1..k -> S] : k \in 0..n}

Max(a, b) == IF a >= b THEN a ELSE b

\* index of the first occurrence of atom a in s, 0 when there is none
IndexOf(s, a) ==
    IF \E i \in 1..Len(s) : s[i] = a
    THEN CHOOSE i \in 1..Len(s) : s[i] = a /\ \A j \in 1..(i - 1) : s[j] # a
    ELSE 0

\* strings.Contains(s, phrase) for a phrase that is one atom
Contains(s, a) == IndexOf(s, a) # 0

\* strings.Split(s, sep): always at least one piece, empty pieces kept
RECURSIVE Split(_, _)
Split(s, sep) ==
    LET i == IndexOf(s, sep)
    IN IF i = 0 THEN <<s>>
       ELSE <<SubSeq(s, 1, i - 1)>> \o Split(SubSeq(s, i + 1, Len(s)), sep)

\* strings.SplitN(s, sep, 2): cut at the first separator only
SplitN2(s, sep) ==
    LET i == IndexOf(s, sep)
    IN IF i = 0 THEN <<s>>
       ELSE <<SubSeq(s, 1, i - 1), SubSeq(s, i + 1, Len(s))>>

\* strings.Fields(s): the maximal runs of non-blank atoms
Fields(s) == SelectSeq(Split(s, " "), LAMBDA t : t # <<>>)

\* strings.TrimSpace(s)
RECURSIVE TrimLeft(_)
TrimLeft(s) == IF s # <<>> /\ Head(s) = " " THEN TrimLeft(Tail(s)) ELSE s
RECURSIVE TrimRight(_)
TrimRight(s) ==
    IF s # <<>> /\ s[Len(s)] = " " THEN TrimRight(SubSeq(s, 1, Len(s) - 1)) ELSE s
TrimSpace(s) == TrimRight(TrimLeft(s))

\* strings.TrimPrefix / strings.TrimSuffix for a one-atom affix
TrimPrefix(s, a) == IF s # <<>> /\ Head(s) = a THEN Tail(s) ELSE s
TrimSuffix(s, a) ==
    IF s # <<>> /\ s[Len(s)] = a THEN SubSeq(s, 1, Len(s) - 1) ELSE s

\* strings.HasPrefix for a one-atom prefix
HasPrefix(s, a) == s # <<>> /\ Head(s) = a

\* Letter case of the atoms that have one; every other atom is caseless.
LowerAtom(a) ==
    CASE a = "PRICE" -> "price"
      [] a = "MARKET" -> "market"
      [] a = "BTC" -> "btc"
      [] a = "DOT" -> "dot"
      [] a = "XYZ" -> "xyz"
      [] a = "0X" -> "0x"
      [] a = "H38" -> "h38"
      [] OTHER -> a

UpperAtom(a) ==
    CASE a = "price" -> "PRICE"
      [] a = "market" -> "MARKET"
      [] a = "btc" -> "BTC"
      [] a = "dot" -> "DOT"
      [] a = "xyz" -> "XYZ"
      [] a = "0x" -> "0X"
      [] a = "h38" -> "H38"
      [] a = "bitcoin" -> "BITCOIN"
      [] a = "polkadot" -> "POLKADOT"
      [] a = "coinmarketcap" -> "COINMARKETCAP"
      [] a = "coingecko" -> "COINGECKO"
      [] a = "dexscreener" -> "DEXSCREENER"
      [] a = "eth" -> "ETH"
      [] OTHER -> a

ToLower(s) == [i \in 1..Len(s) |-> LowerAtom(s[i])]
ToUpper(s) == [i \in 1..Len(s) |-> UpperAtom(s[i])]

\* Number of characters an atom stands for (len() of the Go string).
AtomLen(a) ==
    CASE a \in {"h38", "H38"} -> 38
      [] a = "h37" -> 37
      [] a \in {"0x", "0X"} -> 2
      [] a \in {"btc", "BTC", "dot", "DOT", "xyz", "XYZ"} -> 3
      [] a \in {"price", "PRICE"} -> 5
      [] a \in {"market", "MARKET"} -> 6
      [] OTHER -> 1

RECURSIVE StrLen(_)
StrLen(s) == IF s = <<>> THEN 0 ELSE AtomLen(Head(s)) + StrLen(Tail(s))

\* ------------------------------------------------------------------------
\* Numbers: strconv.ParseFloat, fmt "%.2f", message.Printer
\* ------------------------------------------------------------------------
DigitAtoms == <<"0", "1", "2", "3", "4", "5", "6", "7", "8", "9">>
IsDigit(a) == \E d \in 1..10 : DigitAtoms[d] = a
DigitVal(a) == (CHOOSE d \in 1..10 : DigitAtoms[d] = a) - 1

RECURSIVE Pow10(_)
Pow10(n) == IF n = 0 THEN 1 ELSE 10 * Pow10(n - 1)

\* value of a sequence of digit atoms, most significant first
RECURSIVE DigitsVal(_)
DigitsVal(s) ==
    IF s = <<>> THEN 0
    ELSE DigitsVal(SubSeq(s, 1, Len(s) - 1)) * 10 + DigitVal(s[Len(s)])

\* decimal digits of a natural number, most significant first
RECURSIVE Digits(_)
Digits(n) ==
    IF n < 10 THEN <<DigitAtoms[n + 1]>>
    ELSE Digits(n \div 10) \o <<DigitAtoms[(n % 10) + 1]>>

\* the digits of n with the English thousands separator of message.Printer
RECURSIVE Grouped(_)
Grouped(n) ==
    IF n < 1000 THEN Digits(n)
    ELSE LET r == n % 1000
         IN Grouped(n \div 1000) \o <<",">>
              \o <<DigitAtoms[(r \div 100) + 1], DigitAtoms[((r \div 10) % 10) + 1],
                   DigitAtoms[(r % 10) + 1]>>

Dec(neg, mant, scale) == [kind |-> "num", neg |-> neg, mant |-> mant, scale |-> scale]
NaN == [kind |-> "nan", neg |-> FALSE, mant |-> 0, scale |-> 0]
Inf(neg) == [kind |-> "inf", neg |-> neg, mant |-> 0, scale |-> 0]
Zero == Dec(FALSE, 0, 0)

\* strconv.ParseFloat(s, 64) on the characters of the model: an optional
\* sign, then digits with at most one point and at least one digit; or the
\* specials "NaN" (unsigned) and "Inf" (optionally signed).  A syntax error
\* returns 0 and a non-nil error.
ParseFloat(s) ==
    LET signed == s # <<>> /\ Head(s) \in {"+", "-"}
        neg == s # <<>> /\ Head(s) = "-"
        body == IF signed THEN Tail(s) ELSE s
        dots == {i \in 1..Len(body) : body[i] = "."}
        digs == SelectSeq(body, IsDigit)
        numeric == /\ body # <<>>
                   /\ \A i \in 1..Len(body) : IsDigit(body[i]) \/ body[i] = "."
                   /\ Cardinality(dots) <= 1
                   /\ digs # <<>>
        scale == IF dots = {} THEN 0 ELSE Len(body) - (CHOOSE i \in dots : TRUE)
    IN CASE s = <<"NaN">> -> [err |-> FALSE, val |-> NaN]
         [] body = <<"Inf">> -> [err |-> FALSE, val |-> Inf(neg)]
         [] numeric -> [err |-> FALSE, val |-> Dec(neg, DigitsVal(digs), scale)]
         [] OTHER -> [err |-> TRUE, val |-> Zero]

\* the Go comparison f >= 0 (true of -0, false of NaN)
GeZero(f) ==
    CASE f.kind = "num" -> ~f.neg \/ f.mant = 0
      [] f.kind = "inf" -> ~f.neg
      [] OTHER -> FALSE

\* f rounded to k decimals, as a natural number of 10^-k units (half away
\* from zero; the inputs of the model avoid exact halves)
Rounded(f, k) ==
    IF f.scale <= k THEN f.mant * Pow10(k - f.scale)
    ELSE (f.mant + 5 * Pow10(f.scale - k - 1)) \div Pow10(f.scale - k)

SignAtoms(f) == IF f.neg THEN <<"-">> ELSE <<>>

\* fmt.Sprintf("%.2f", f): the sign is kept when the value rounds to zero
Sprintf2f(f) ==
    CASE f.kind = "nan" -> <<"NaN">>
      [] f.kind = "inf" -> <<IF f.neg THEN "-" ELSE "+", "Inf">>
      [] OTHER ->
           LET h == Rounded(f, 2)
           IN SignAtoms(f) \o Digits(h \div 100) \o <<".">>
                \o <<DigitAtoms[((h % 100) \div 10) + 1], DigitAtoms[(h % 10) + 1]>>

\* fmt.Sprintf("%.2f%%", f)
SprintfPercent(f) == Sprintf2f(f) \o <<"%">>

formatCurrency(amount) ==
    CASE amount.kind = "nan" -> <<"$", "NaN">>
      [] amount.kind = "inf" -> <<"$">> \o SignAtoms(amount) \o <<"Inf">>
      [] OTHER ->
           LET h == Rounded(amount, 2)
           IN <<"$">> \o SignAtoms(amount) \o Grouped(h \div 100) \o <<".">>
                \o <<DigitAtoms[((h % 100) \div 10) + 1], DigitAtoms[(h % 10) + 1]>>

formatQuantity(quantity) ==
    IF quantity.mant = 0 THEN <<"N/A">>
    ELSE SignAtoms(quantity) \o Grouped(Rounded(quantity, 0))

\* ------------------------------------------------------------------------
\* Response formatter
\* ------------------------------------------------------------------------
NL == "\n"

\* The literal pieces of the template of formatOutput.  The atoms "(money)",
\* "(green)" and "(red)" stand for the emoji of the source.
HeaderOpen == "(money) **"
HeaderClose == " Price & Market Overview**"
PriceLabel == "- **Price (USD):** "
ChangeLabel == "- **24h Change:** "
GreenMarker == "**(green) +"
RedMarker == "**(red) "
MarkerClose == "**"
MarketCapLabel == "- **Market Cap:** "
VolumeLabel == "- **24h Volume:** "
FdvLabel == "- **Fully Diluted Value (FDV):** "
SupplyLabel == "- **Circulating Supply:** "
FooterOpen == "*(Data provided by "
FooterClose == ")*"

\* a parser that keeps the first pair of a key and drops the later ones
ParsePairs_FirstWins(rawOutput) ==
    LET pairs == Split(rawOutput, ";")
        kvs == [i \in 1..Len(pairs) |-> SplitN2(pairs[i], ":")]
        good == {i \in 1..Len(pairs) : Len(kvs[i]) = 2}
        keys == {kvs[i][1] : i \in good}
        first(k) == CHOOSE i \in good :
                       kvs[i][1] = k /\ \A j \in good : kvs[j][1] = k => i <= j
    IN [k \in keys |-> kvs[first(k)][2]]

\* Step 1 of formatOutput: the map built from the ";"-separated pairs.  A
\* later pair with the same key overwrites an earlier one.
ParsePairs(rawOutput) ==
    LET pairs == Split(rawOutput, ";")
        kvs == [i \in 1..Len(pairs) |-> SplitN2(pairs[i], ":")]
        good == {i \in 1..Len(pairs) : Len(kvs[i]) = 2}
        keys == {kvs[i][1] : i \in good}
        last(k) == CHOOSE i \in good :
                      kvs[i][1] = k /\ \A j \in good : kvs[j][1] = k => j <= i
    IN [k \in keys |-> kvs[last(k)][2]]

\* parts[key] of a Go map: the zero value "" when the key is missing
MapGet(parts, key) == IF key \in DOMAIN parts THEN parts[key] ELSE <<>>
MapHas(parts, key) == key \in DOMAIN parts

\* The 24h-change line of formatOutput.
ChangeIsNonNegative(changeFloat) == GeZero(changeFloat)

ChangeLine(change) ==
    LET r == ParseFloat(TrimSuffix(change, "%"))
    IN IF ~r.err
       THEN IF ChangeIsNonNegative(r.val)
            THEN <<ChangeLabel, GreenMarker>> \o change \o <<MarkerClose, NL>>
            ELSE <<ChangeLabel, RedMarker>> \o change \o <<MarkerClose, NL>>
       ELSE IF change # <<>>
            THEN <<ChangeLabel>> \o change \o <<NL>>
            ELSE <<>>

\* An optional line: printed when the key is present and its value is not "".
OptionalLine(parts, key, label) ==
    IF MapHas(parts, key) /\ MapGet(parts, key) # <<>>
    THEN <<label>> \o MapGet(parts, key) \o <<NL>>
    ELSE <<>>

SupplyLine(parts) ==
    LET supply == MapGet(parts, <<"circulating_supply">>)
    IN IF MapHas(parts, <<"circulating_supply">>) /\ supply # <<"N/A">> /\ supply # <<>>
       THEN <<SupplyLabel>> \o supply \o <<NL>>
       ELSE <<>>

formatOutput(rawOutput) ==
    LET parts == ParsePairs(rawOutput)
        source == MapGet(parts, <<"token_source">>)
        price == MapGet(parts, <<"current_price_usd">>)
        change == MapGet(parts, <<"24h_change">>)
        name == MapGet(parts, <<"name">>)
        tokenName == IF name = <<>> THEN <<"Token">> ELSE name
    IN <<HeaderOpen>> \o tokenName \o <<HeaderClose, NL>>
         \o <<PriceLabel>> \o price \o <<NL>>
         \o ChangeLine(change)
         \o OptionalLine(parts, <<"market_cap_usd">>, MarketCapLabel)
         \o OptionalLine(parts, <<"volume_24h">>, VolumeLabel)
         \o OptionalLine(parts, <<"fdv">>, FdvLabel)
         \o SupplyLine(parts)
         \o <<NL, FooterOpen>> \o ToUpper(source) \o <<FooterClose>>

\* ------------------------------------------------------------------------
\* Symbol normalizer
\* ------------------------------------------------------------------------
\* coinIDMap of the multi-provider program (one-atom keys and values)
coinIDMap ==
    [k \in {"btc", "eth", "sol", "ada", "doge", "shib", "pepe", "avax", "link",
            "uni", "matic", "ltc"} |->
        CASE k = "btc" -> "bitcoin"
          [] k = "eth" -> "ethereum"
          [] k = "sol" -> "solana"
          [] k = "ada" -> "cardano"
          [] k = "doge" -> "dogecoin"
          [] k = "shib" -> "shiba-inu"
          [] k = "pepe" -> "pepe"
          [] k = "avax" -> "avalanche"
          [] k = "link" -> "chainlink"
          [] k = "uni" -> "uniswap"
          [] k = "matic" -> "polygon"
          [] OTHER -> "litecoin"]

\* coinIDMap of the single-provider program
coinIDMapSingle ==
    [k \in {"btc", "eth", "sol", "ada", "dot", "xrp"} |->
        CASE k = "btc" -> "bitcoin"
          [] k = "eth" -> "ethereum"
          [] k = "sol" -> "solana"
          [] k = "ada" -> "cardano"
          [] k = "dot" -> "polkadot"
          [] OTHER -> "ripple"]

LookupID(map, input) ==
    LET lowerInput == ToLower(input)
    IN IF Len(lowerInput) = 1 /\ lowerInput[1] \in DOMAIN map
       THEN <<map[lowerInput[1]]>>
       ELSE lowerInput

\* a normalizer that forgets the table
getCoinID_NoMap(input) == ToLower(input)

getCoinID(input) == LookupID(coinIDMap, input)
getCoinIDSingle(input) == LookupID(coinIDMapSingle, input)

\* ------------------------------------------------------------------------
\* Provider clients
\* ------------------------------------------------------------------------
\* What one HTTP exchange can give: ok is FALSE for a transport failure;
\* otherwise there is a status and a body, which is JSON (decoded to doc) or
\* not.  status, json and doc mean nothing when ok is FALSE, and doc means
\* nothing when json is FALSE.
Replies(docs) ==
    LET any == CHOOSE d \in docs : TRUE
    IN {[ok |-> FALSE, status |-> 0, json |-> FALSE, doc |-> any]}
         \cup {[ok |-> TRUE, status |-> st, json |-> FALSE, doc |-> any] :
                  st \in {StatusOK, 404}}
         \cup {[ok |-> TRUE, status |-> st, json |-> TRUE, doc |-> d] :
                  st \in {StatusOK, 404}, d \in docs}

\* http.NewRequest fails on a URL with an invalid percent escape
NewRequestFails(url) == Contains(url, "%zz")

\* what a client returns: the text, whether the error is non-nil, and
\* whether client.Do was reached (a request went out)
Ret(text, err, sent) == [text |-> text, err |-> err, sent |-> sent]

CMCNotFoundPhrase == "CMC could not find market data"
CGNotFoundPhrase == "Could not find data for"

getCoinGeckoData(coinID, h) ==
    IF NewRequestFails(coinID) THEN Ret(<<"Error creating HTTP request.">>, TRUE, FALSE)
    ELSE IF ~h.ok THEN Ret(<<"Error contacting CoinGecko API.">>, TRUE, TRUE)
    ELSE IF h.status # StatusOK
    THEN Ret(<<"Error", ":", " CoinGecko API returned status ">> \o Digits(h.status)
               \o <<". ", CGNotFoundPhrase, " ">> \o coinID \o <<".">>, FALSE, TRUE)
    ELSE IF ~h.json THEN Ret(<<"Error processing CG API response.">>, TRUE, TRUE)
    ELSE LET d == h.doc
         IN Ret(<<"token_source", ":", "coingecko", ";", "current_price_usd", ":">>
                  \o formatCurrency(d.usd)
                  \o <<";", "current_price_eur", ":">> \o formatCurrency(d.eur)
                  \o <<";", "24h_change", ":">> \o SprintfPercent(d.change)
                  \o <<";", "market_cap_usd", ":">> \o formatCurrency(d.market_cap)
                  \o <<";", "circulating_supply", ":">> \o formatQuantity(d.circulating)
                  \o <<";", "total_supply", ":">> \o formatQuantity(d.total),
                FALSE, TRUE)

\* apiKey: whether CMC_API_KEY is non-empty.  The decoded document has the
\* status error code and message and the data map, a set of [key, val].
getCMCData(symbol, apiKey, h) ==
    IF ~apiKey
    THEN Ret(<<"Error", ":", " CMC_API_KEY not found in .env file.">>, FALSE, FALSE)
    ELSE IF ~h.ok THEN Ret(<<"Error contacting CoinMarketCap API.">>, TRUE, TRUE)
    ELSE IF ~h.json THEN Ret(<<"Error processing CMC API response.">>, TRUE, TRUE)
    ELSE IF h.doc.error_code # 0
    THEN Ret(<<CMCNotFoundPhrase, " for symbol", ":", " ">> \o symbol
               \o <<". Error", ":", " ">> \o h.doc.error_message, FALSE, TRUE)
    ELSE IF \A e \in h.doc.data : e.key # ToUpper(symbol)
    THEN Ret(<<CMCNotFoundPhrase, " for symbol", ":", " ">> \o symbol
               \o <<". Try another symbol.">>, FALSE, TRUE)
    ELSE LET d == (CHOOSE e \in h.doc.data : e.key = ToUpper(symbol)).val
         IN Ret(<<"token_source", ":", "coinmarketcap", ";", "current_price_usd", ":">>
                  \o formatCurrency(d.price)
                  \o <<";", "24h_change", ":">> \o SprintfPercent(d.change)
                  \o <<";", "market_cap_usd", ":">> \o formatCurrency(d.market_cap)
                  \o <<";", "circulating_supply", ":">> \o formatQuantity(d.circulating)
                  \o <<";", "total_supply", ":">> \o formatQuantity(d.total),
                FALSE, TRUE)

\* The decoded document is the sequence of pairs; the first one is used.
\* ChainID, BaseToken.Symbol and PriceUsd are strings of the provider.
getDexData(tokenAddress, h) ==
    IF NewRequestFails(tokenAddress) THEN Ret(<<>>, TRUE, FALSE)
    ELSE IF ~h.ok THEN Ret(<<>>, TRUE, TRUE)
    ELSE IF h.status # StatusOK
    THEN Ret(<<"Dexscreener Error", ":", " API returned status ">> \o Digits(h.status)
               \o <<".">>, FALSE, TRUE)
    ELSE IF ~h.json THEN Ret(<<"Error processing Dexscreener response.">>, TRUE, TRUE)
    ELSE IF Len(h.doc) = 0
    THEN Ret(<<"Dexscreener found no pairs for that token address.">>, FALSE, TRUE)
    ELSE LET pair == h.doc[1]
             price == ParseFloat(pair.priceUsd).val
         IN Ret(<<"token_source", ":", "dexscreener", ";", "chain_id", ":">>
                  \o pair.chainId
                  \o <<";", "current_price_usd", ":">> \o formatCurrency(price)
                  \o <<";", "volume_24h", ":">> \o formatCurrency(pair.volume_h24)
                  \o <<";", "fdv", ":">> \o formatCurrency(pair.fdv)
                  \o <<";", "base_token", ":">> \o pair.symbol,
                FALSE, TRUE)

\* ------------------------------------------------------------------------
\* What the providers can answer (the inputs of the environment)
\* ------------------------------------------------------------------------
\* percentage changes: 5, -3.2, -0.004 (prints as -0.00) and 0
Changes == {Dec(FALSE, 5, 0), Dec(TRUE, 32, 1), Dec(TRUE, 4, 3), Zero}
\* supplies: 0 (prints as N/A) and 19,700,000
Supplies == {Zero, Dec(FALSE, 19700000, 0)}

CMCData(change, circulating) ==
    [price |-> Dec(FALSE, 6512345, 2), change |-> change,
     market_cap |-> Dec(FALSE, 12800005, 1), circulating |-> circulating,
     total |-> Dec(FALSE, 21000000, 0)]

CMCDoc(code, message, data) ==
    [error_code |-> code, error_message |-> message, data |-> data]

\* documents of the primary provider: an API error, an empty data map, and
\* a data map with an entry for BTC
CMCDocs(quotes) ==
    {CMCDoc(400, <<"Invalid value for symbol">>, {}), CMCDoc(0, <<>>, {})}
      \cup {CMCDoc(0, <<>>, {[key |-> <<"BTC">>, val |-> q]}) : q \in quotes}

CGData(change, circulating) ==
    [usd |-> Dec(FALSE, 6512345, 2), eur |-> Dec(FALSE, 5987654, 2), change |-> change,
     market_cap |-> Dec(FALSE, 12800005, 1), circulating |-> circulating,
     total |-> Zero]

DexPair(chainId, symbol, priceUsd) ==
    [chainId |-> chainId, symbol |-> symbol, priceUsd |-> priceUsd,
     volume_h24 |-> Dec(FALSE, 1234567, 3), fdv |-> Dec(FALSE, 99, 0)]

\* documents of the on-chain provider: no pair, or one pair
DexDocs(pairs) == {<<>>} \cup {<<p>> : p \in pairs}

\* the answers used when the dispatcher is explored
SomeCMC == {CMCData(Dec(FALSE, 5, 0), Dec(FALSE, 19700000, 0))}
SomeCG == {CGData(Dec(TRUE, 32, 1), Zero)}
SomeDex == {DexPair(<<"ethereum">>, <<"PEPE">>, <<"1", ".", "5">>)}

\* ------------------------------------------------------------------------
\* Commands the host can hand to the agent
\* ------------------------------------------------------------------------
ArgAlphabet == {"btc", "BTC", "0x", "0X", "h38", "h37", "%zz"}

Verbs ==
    {<<>>, <<"/">>, <<"price">>, <<"/", "price">>, <<"/", "PRICE">>, <<"/", "market">>,
     <<"MARKET">>, <<" ", "/", "price">>, <<"/", "btc">>}

Inputs ==
    {v \o sep \o a \o t :
        v \in Verbs, sep \in {<<>>, <<" ">>}, a \in SeqsUpTo(ArgAlphabet, MaxArgLen),
        t \in {<<>>, <<" ", "btc">>}}

\* ------------------------------------------------------------------------
\* State
\* ------------------------------------------------------------------------
VARIABLES
    variant,   \* which of the two programs of the file runs: "multi" or "single"
    apiKey,    \* whether CMC_API_KEY is set to a non-empty value
    pc,        \* "idle", the client the handler is blocked in, or "done"
    input,     \* the command string of the invocation
    events,    \* the provider-client calls, sends and returns, in order
    cmc,       \* the call of getCMCData of this invocation
    cg,        \* the call of the CoinGecko client of this invocation
    dex,       \* the call of getDexData of this invocation
    result     \* what ProcessTask returned: [text, err]

vars == <<variant, apiKey, pc, input, events, cmc, cg, dex, result>>

\* A call of a client: its argument, what it returned (text, err), whether
\* client.Do was reached (sent) and, if so, what the exchange gave: whether
\* there was a response (ok), its status and whether its body was JSON.
NoCall == [called |-> FALSE, returned |-> FALSE, arg |-> <<>>, text |-> <<>>,
           err |-> FALSE, sent |-> FALSE, ok |-> FALSE, status |-> 0,
           json |-> FALSE]
Calling(arg) == [NoCall EXCEPT !.called = TRUE, !.arg = arg]
Returned(call, r, h) ==
    [call EXCEPT !.returned = TRUE, !.text = r.text, !.err = r.err,
                 !.sent = r.sent,
                 !.ok = r.sent /\ h.ok,
                 !.status = IF r.sent /\ h.ok THEN h.status ELSE 0,
                 !.json = r.sent /\ h.ok /\ h.json]

NoResult == [text |-> <<>>, err |-> FALSE]
Result(text, err) == [text |-> text, err |-> err]

Call(p) == <<"call", p>>
Send(p) == <<"send", p>>
Return(p) == <<"return", p>>
\* the events of a client that returns r
ReturnEvents(p, r) == (IF r.sent THEN <<Send(p)>> ELSE <<>>) \o <<Return(p)>>

EventsOf(kind) == {i \in 1..Len(events) : events[i][1] = kind}
CallsOf(p) == {i \in 1..Len(events) : events[i] = Call(p)}

Init ==
    /\ variant \in {"multi", "single"}
    /\ apiKey \in BOOLEAN
    /\ pc = "idle"
    /\ input = <<>>
    /\ events = <<>>
    /\ cmc = NoCall
    /\ cg = NoCall
    /\ dex = NoCall
    /\ result = NoResult

\* ------------------------------------------------------------------------
\* Dispatcher of the multi-provider program
\* ------------------------------------------------------------------------
UsageText ==
    <<"Please specify a command (/price or /market) and a token symbol or contract address.">>
UnknownText(command) == <<"Unknown command", ":", " ">> \o command \o <<". Use /price or /market.">>
FinalFailureText(lookupTarget) ==
    <<"Could not find market data for ">> \o lookupTarget
      \o <<" on ", "CoinMarketCap", " or ", "CoinGecko",
           ". Please ensure the symbol is correct or use a contract address for DEX listings.">>

\* a dispatcher that takes any word with a leading slash for a command
IsCommand_AnySlash(command) == HasPrefix(command, "/")

IsCommand(command) == command = <<"/", "price">> \/ command = <<"/", "market">>

\* a dispatcher whose length test is strict
IsContractAddress_Strict(cleanInput) ==
    HasPrefix(cleanInput, "0x") /\ StrLen(cleanInput) > AddrMinLen

IsContractAddress(cleanInput) ==
    HasPrefix(cleanInput, "0x") /\ StrLen(cleanInput) >= AddrMinLen

CMCSucceeded(cmcResponse, cmcErr) == ~cmcErr /\ ~Contains(cmcResponse, CMCNotFoundPhrase)

\* a dispatcher that looks at the error of the failover client only
CGSucceeded_ErrOnly(cgResponse, cgErr) == ~cgErr

CGSucceeded(cgResponse, cgErr) == ~cgErr /\ ~Contains(cgResponse, CGNotFoundPhrase)

LookupTarget(in) == Fields(in)[2]

\* ProcessTask on the command in, up to its first provider call
ProcessTaskOn(in) ==
    /\ input' = in
    /\ cg' = NoCall
    /\ LET parts == Fields(in)
       IN IF Len(parts) < 2
          THEN /\ result' = Result(UsageText, FALSE)
               /\ pc' = "done"
               /\ UNCHANGED <<events, cmc, dex>>
          ELSE LET command == ToLower(parts[1])
                   lookupTarget == parts[2]
                   cleanInput == ToLower(TrimSpace(lookupTarget))
               IN IF ~IsCommand(command)
                  THEN /\ result' = Result(UnknownText(command), FALSE)
                       /\ pc' = "done"
                       /\ UNCHANGED <<events, cmc, dex>>
                  ELSE IF IsContractAddress(cleanInput)
                  THEN /\ dex' = Calling(cleanInput)
                       /\ events' = <<Call("dex")>>
                       /\ pc' = "getDexData"
                       /\ UNCHANGED <<cmc, result>>
                  ELSE /\ cmc' = Calling(lookupTarget)
                       /\ events' = <<Call("cmc")>>
                       /\ pc' = "getCMCData"
                       /\ UNCHANGED <<dex, result>>

\* ProcessTask, on one of the given commands, up to its first provider call
ProcessTask(commands) ==
    /\ variant = "multi"
    /\ pc = "idle"
    /\ \E in \in commands : ProcessTaskOn(in)
    /\ UNCHANGED <<variant, apiKey>>

\* getDexData returns and ProcessTask finishes
DexReturns(h) ==
    /\ pc = "getDexData"
    /\ LET r == getDexData(dex.arg, h)
       IN /\ dex' = Returned(dex, r, h)
          /\ events' = events \o ReturnEvents("dex", r)
          /\ result' = IF r.err THEN Result(<<"Error fetching DEX data.">>, TRUE)
                       ELSE Result(formatOutput(r.text), FALSE)
    /\ pc' = "done"
    /\ UNCHANGED <<variant, apiKey, input, cmc, cg>>

\* getCMCData returns; ProcessTask finishes or calls the failover client
CMCReturns(h) ==
    /\ pc = "getCMCData"
    /\ LET r == getCMCData(cmc.arg, apiKey, h)
       IN /\ cmc' = Returned(cmc, r, h)
          /\ IF CMCSucceeded(r.text, r.err)
             THEN /\ result' = Result(formatOutput(r.text), FALSE)
                  /\ events' = events \o ReturnEvents("cmc", r)
                  /\ pc' = "done"
                  /\ UNCHANGED cg
             ELSE /\ cg' = Calling(getCoinID(LookupTarget(input)))
                  /\ events' = events \o ReturnEvents("cmc", r) \o <<Call("cg")>>
                  /\ pc' = "getCoinGeckoData"
                  /\ UNCHANGED result
    /\ UNCHANGED <<variant, apiKey, input, dex>>

\* a dispatcher that tries the failover client a second time after an error
CGReturns_Retry(h) ==
    /\ pc = "getCoinGeckoData"
    /\ LET r == getCoinGeckoData(cg.arg, h)
       IN IF r.err /\ Cardinality(CallsOf("cg")) < 2
          THEN /\ events' = events \o ReturnEvents("cg", r) \o <<Call("cg")>>
               /\ UNCHANGED <<cg, result, pc>>
          ELSE /\ cg' = Returned(cg, r, h)
               /\ events' = events \o ReturnEvents("cg", r)
               /\ result' = IF CGSucceeded(r.text, r.err)
                            THEN Result(formatOutput(r.text), FALSE)
                            ELSE Result(FinalFailureText(LookupTarget(input)), FALSE)
               /\ pc' = "done"
    /\ UNCHANGED <<variant, apiKey, input, cmc, dex>>

\* getCoinGeckoData returns and ProcessTask finishes
CGReturns(h) ==
    /\ pc = "getCoinGeckoData"
    /\ LET r == getCoinGeckoData(cg.arg, h)
       IN /\ cg' = Returned(cg, r, h)
          /\ events' = events \o ReturnEvents("cg", r)
          /\ result' = IF CGSucceeded(r.text, r.err)
                       THEN Result(formatOutput(r.text), FALSE)
                       ELSE Result(FinalFailureText(LookupTarget(input)), FALSE)
    /\ pc' = "done"
    /\ UNCHANGED <<variant, apiKey, input, cmc, dex>>

\* the host runtime takes the result; the next task starts from nothing
HostTakesResult ==
    /\ pc = "done"
    /\ pc' = "idle"
    /\ input' = <<>>
    /\ events' = <<>>
    /\ cmc' = NoCall
    /\ cg' = NoCall
    /\ dex' = NoCall
    /\ result' = NoResult
    /\ UNCHANGED <<variant, apiKey>>

\* ------------------------------------------------------------------------
\* The single-provider program
\* ------------------------------------------------------------------------
\* documents of the simple-price endpoint: a map id -> (currency -> price)
PriceDocs ==
    {{}, {[key |-> <<"bitcoin">>, val |-> {}]},
     {[key |-> <<"bitcoin">>, val |-> {[key |-> "usd", val |-> Dec(FALSE, 6512345, 2)]}]}}

\* documents of the markets endpoint: a list of market records
MarketDocs ==
    {<<>>,
     <<[name |-> <<"Bitcoin">>, current_price |-> Dec(FALSE, 6512345, 2),
        market_cap |-> Dec(FALSE, 12800005, 1), change |-> Dec(TRUE, 32, 1),
        last_updated |-> 90061]>>}

NoCommandText ==
    <<"No command provided. Available commands", ":", " price [symbol], market [symbol]">>
UnknownSingleText(command) ==
    <<"Unknown command '">> \o command
      \o <<"'. Available commands", ":", " price [symbol], market [symbol]">>
RateLimitText(status) ==
    <<"Error", ":", " CoinGecko API returned status ">> \o Digits(status)
      \o <<". Rate limit likely exceeded.">>

TwoDigits(n) == <<DigitAtoms[(n \div 10) + 1], DigitAtoms[(n % 10) + 1]>>

\* time.Unix(ts, 0).Format("2006-01-02 15:04:05 MST"), with the calendar
\* date kept as the day number since the epoch and the zone as one atom
FormatTime(ts) ==
    <<"day ">> \o Digits(ts \div 86400) \o <<" ">> \o TwoDigits((ts % 86400) \div 3600)
      \o <<":">> \o TwoDigits((ts % 3600) \div 60) \o <<":">> \o TwoDigits(ts % 60)
      \o <<" ", "zone">>

handlePriceCommand(args, h) ==
    IF Len(args) = 0
    THEN Ret(<<"Please specify a cryptocurrency symbol (e.g., price bitcoin)">>, FALSE, FALSE)
    ELSE LET coinID == getCoinIDSingle(args[1])
             found == {e \in h.doc : e.key = coinID}
             priceData == IF found = {} THEN {} ELSE (CHOOSE e \in found : TRUE).val
             usd == {e \in priceData : e.key = "usd"}
             price == IF usd = {} THEN Zero ELSE (CHOOSE e \in usd : TRUE).val
         IN IF NewRequestFails(coinID)
            THEN Ret(<<"Error creating HTTP request.">>, TRUE, FALSE)
            ELSE IF ~h.ok THEN Ret(<<"Error contacting CoinGecko API.">>, TRUE, TRUE)
            ELSE IF h.status # StatusOK THEN Ret(RateLimitText(h.status), FALSE, TRUE)
            ELSE IF ~h.json THEN Ret(<<"Error processing API response.">>, TRUE, TRUE)
            ELSE IF found = {} \/ priceData = {}
            THEN Ret(<<"Could not find price data for symbol", ":", " ">> \o coinID
                       \o <<". Please check the spelling.">>, FALSE, TRUE)
            ELSE Ret(ToUpper(coinID) \o <<" Price", ":", " ", "$">> \o Sprintf2f(price),
                     FALSE, TRUE)

handleMarketCommand(args, h) ==
    IF Len(args) = 0
    THEN Ret(<<"Please specify a cryptocurrency symbol (e.g., market ethereum)">>, FALSE, FALSE)
    ELSE LET coinID == getCoinIDSingle(args[1])
         IN IF NewRequestFails(coinID)
            THEN Ret(<<"Error creating HTTP request.">>, TRUE, FALSE)
            ELSE IF ~h.ok THEN Ret(<<"Error contacting CoinGecko API.">>, TRUE, TRUE)
            ELSE IF h.status # StatusOK THEN Ret(RateLimitText(h.status), FALSE, TRUE)
            ELSE IF ~h.json THEN Ret(<<"Error processing API response.">>, TRUE, TRUE)
            ELSE IF Len(h.doc) = 0
            THEN Ret(<<"Could not find market data for symbol", ":", " ">> \o coinID
                       \o <<". Please check the spelling.">>, FALSE, TRUE)
            ELSE LET data == h.doc[1]
                 IN Ret(<<NL>> \o data.name
                          \o <<" Market Overview", ":", NL, "----------------------", NL,
                               "Current Price", ":", " $">> \o Sprintf2f(data.current_price)
                          \o <<NL, "Market Cap", ":", " $">> \o Sprintf2f(data.market_cap)
                          \o <<NL, "24h Change", ":", " ">> \o SprintfPercent(data.change)
                          \o <<NL, "Last Updated", ":", " ">> \o FormatTime(data.last_updated)
                          \o <<NL>>,
                        FALSE, TRUE)

\* the arguments of the command of a task of the single-provider program
SingleParts(task) == Fields(ToLower(TrimPrefix(TrimSpace(task), "/")))

\* ProcessTask of the single-provider program up to the HTTP call of the
\* command handler, if it gets that far
ProcessTaskSingleOn(in) ==
    /\ input' = in
    /\ LET parts == SingleParts(in)
       IN IF Len(parts) = 0
          THEN /\ result' = Result(NoCommandText, FALSE)
               /\ pc' = "done"
               /\ UNCHANGED <<events, cg>>
          ELSE LET command == parts[1]
                   args == Tail(parts)
               IN IF command \notin {<<"price">>, <<"market">>}
                  THEN /\ result' = Result(UnknownSingleText(command), FALSE)
                       /\ pc' = "done"
                       /\ UNCHANGED <<events, cg>>
                  ELSE IF Len(args) = 0
                  THEN /\ result' =
                            LET r == IF command = <<"price">>
                                     THEN handlePriceCommand(args, CHOOSE h \in Replies(PriceDocs) : TRUE)
                                     ELSE handleMarketCommand(args, CHOOSE h \in Replies(MarketDocs) : TRUE)
                            IN Result(r.text, r.err)
                       /\ pc' = "done"
                       /\ UNCHANGED <<events, cg>>
                  ELSE /\ cg' = Calling(getCoinIDSingle(args[1]))
                       /\ events' = <<Call("cg")>>
                       /\ pc' = IF command = <<"price">> THEN "handlePriceCommand"
                                ELSE "handleMarketCommand"
                       /\ UNCHANGED result

ProcessTaskSingle(commands) ==
    /\ variant = "single"
    /\ pc = "idle"
    /\ \E in \in commands : ProcessTaskSingleOn(in)
    /\ UNCHANGED <<variant, apiKey, cmc, dex>>

\* the HTTP exchange of handlePriceCommand ends and ProcessTask returns
PriceReturns(h) ==
    /\ pc = "handlePriceCommand"
    /\ LET r == handlePriceCommand(Tail(SingleParts(input)), h)
       IN /\ cg' = Returned(cg, r, h)
          /\ events' = events \o ReturnEvents("cg", r)
          /\ result' = Result(r.text, r.err)
    /\ pc' = "done"
    /\ UNCHANGED <<variant, apiKey, input, cmc, dex>>

\* the HTTP exchange of handleMarketCommand ends and ProcessTask returns
MarketReturns(h) ==
    /\ pc = "handleMarketCommand"
    /\ LET r == handleMarketCommand(Tail(SingleParts(input)), h)
       IN /\ cg' = Returned(cg, r, h)
          /\ events' = events \o ReturnEvents("cg", r)
          /\ result' = Result(r.text, r.err)
    /\ pc' = "done"
    /\ UNCHANGED <<variant, apiKey, input, cmc, dex>>

\* ------------------------------------------------------------------------
\* Specification of the dispatchers
\* ------------------------------------------------------------------------
Next ==
    \/ ProcessTask(Inputs)
    \/ \E h \in Replies(DexDocs(SomeDex)) : DexReturns(h)
    \/ \E h \in Replies(CMCDocs(SomeCMC)) : CMCReturns(h)
    \/ \E h \in Replies(SomeCG) : CGReturns(h)
    \/ ProcessTaskSingle(Inputs)
    \/ \E h \in Replies(PriceDocs) : PriceReturns(h)
    \/ \E h \in Replies(MarketDocs) : MarketReturns(h)
    \/ HostTakesResult

Spec == Init /\ [][Next]_vars

\* ------------------------------------------------------------------------
\* Properties of the dispatchers
\* ------------------------------------------------------------------------
Multi == variant = "multi" /\ pc # "idle"
Single == variant = "single" /\ pc # "idle"
Done == pc = "done"

\* s occurs in t as a run of consecutive atoms
Within(s, t) == \E i \in 0..(Len(t) - Len(s)) : SubSeq(t, i + 1, i + Len(s)) = s

\* a provider result that is quote data: the key-value record of a quote
IsQuote(text) == HasPrefix(text, "token_source")
\* a text that formatOutput rendered
IsRendered(text) == HasPrefix(text, HeaderOpen)
\* the last line of a rendered text
Footer(text) == SubSeq(text, Max(1, Len(text) - 2), Len(text))

NotFoundByCMC == cmc.returned /\ ~cmc.err /\ Contains(cmc.text, CMCNotFoundPhrase)

\* the second token has the shape of a contract address
AddressShaped(in) ==
    LET t == ToLower(Fields(in)[2])
    IN t # <<>> /\ t[1] = "0x" /\ StrLen(t) >= 40

\* C1: in the multi-provider ProcessTask, a second token that lowercased
\* starts with "0x" and has length >= 40 makes getDexData the only provider
\* called, whatever it returns; any other second token never calls it.
C1_DexBranchByShape ==
    (Multi /\ Len(Fields(input)) >= 2) =>
        IF AddressShaped(input)
        THEN ~cmc.called /\ ~cg.called /\ \A i \in 1..Len(events) : events[i][2] = "dex"
        ELSE ~dex.called /\ \A i \in 1..Len(events) : events[i][2] # "dex"

C1_Witness ==
    /\ Multi /\ Done /\ dex.returned /\ ~dex.err
    /\ dex.text = <<"Dexscreener found no pairs for that token address.">>
    /\ IsRendered(result.text)

\* C2 (as claimed): on the ticker path the secondary provider is called only
\* after the primary returned "symbol not found" with a nil error, and not
\* when the primary call ended in a transport or decode error.
C2_FallbackOnlyOnNotFound == (Multi /\ cg.called) => NotFoundByCMC

\* C3 (as claimed): when a provider client called by ProcessTask returns a
\* non-nil error, ProcessTask returns a non-nil error to the host, and no
\* further provider is called after the failed one.
C3_ProviderErrorIsReturned ==
    /\ (Multi /\ Done /\ ((dex.returned /\ dex.err) \/ (cmc.returned /\ cmc.err)
                            \/ (cg.returned /\ cg.err))) => result.err
    /\ (Multi /\ cmc.returned /\ cmc.err) => ~cg.called

\* C4 (as claimed): on the ticker path a provider's result is rendered as a
\* quote only when it is quote data, and a primary result that is not quote
\* data (not-found text, missing-credential text) sends the dispatcher on to
\* the secondary provider.
C4_OnlyQuotesAreRendered ==
    /\ (Multi /\ Done /\ cmc.called /\ IsRendered(result.text)) =>
          IF cg.called THEN IsQuote(cg.text) ELSE IsQuote(cmc.text)
    /\ (Multi /\ Done /\ cmc.returned /\ ~cmc.err /\ ~IsQuote(cmc.text)) => cg.called

\* a usage error of the multi-provider program
UsageErrorMulti(in) ==
    \/ Len(Fields(in)) < 2
    \/ ToLower(Fields(in)[1]) \notin {<<"/", "price">>, <<"/", "market">>}

\* a usage error of the single-provider program: empty input, unknown verb,
\* or a recognised verb with no argument
UsageErrorSingle(in) ==
    LET parts == Fields(ToLower(TrimPrefix(TrimSpace(in), "/")))
    IN \/ Len(parts) = 0
       \/ parts[1] \notin {<<"price">>, <<"market">>}
       \/ Len(parts) = 1

GuidanceOpenings ==
    {"Please specify a command (/price or /market) and a token symbol or contract address.",
     "Unknown command", "No command provided. Available commands", "Unknown command '",
     "Please specify a cryptocurrency symbol (e.g., price bitcoin)",
     "Please specify a cryptocurrency symbol (e.g., market ethereum)"}

\* C5: a usage error calls no provider client, sends nothing, and returns a
\* guidance string with a nil error, in both programs.
C5_UsageErrorIsLocal ==
    ((Multi /\ UsageErrorMulti(input)) \/ (Single /\ UsageErrorSingle(input))) =>
        /\ Done
        /\ events = <<>>
        /\ ~cmc.called /\ ~cg.called /\ ~dex.called
        /\ ~result.err
        /\ result.text # <<>> /\ result.text[1] \in GuidanceOpenings

C5_Witness ==
    /\ Multi /\ Done /\ Len(Fields(input)) >= 2 /\ UsageErrorMulti(input)
    /\ result.text[1] = "Unknown command"

\* C6: one invocation sends at most two HTTP requests, one after the other,
\* calls each provider at most once, and on the ticker path calls the
\* secondary provider only after the primary provider has returned.
C6_AtMostTwoSequentialCalls ==
    /\ Cardinality(EventsOf("send")) <= 2
    /\ \A p \in {"dex", "cmc", "cg"} : Cardinality(CallsOf(p)) <= 1
    /\ \A i \in EventsOf("call") : i > 1 => events[i - 1][1] = "return"
    /\ \A i \in EventsOf("send") \cup EventsOf("return") :
          \E j \in 1..(i - 1) :
              /\ events[j] = Call(events[i][2])
              /\ \A k \in (j + 1)..(i - 1) : events[k][1] = "send"
    /\ variant = "multi" =>
          \A i \in CallsOf("cg") : \E j \in 1..(i - 1) : events[j] = Return("cmc")
    /\ \A i \in CallsOf("cmc") : \A j \in 1..(i - 1) : events[j][2] # "cg"

C6_Witness ==
    /\ Multi /\ Done
    /\ events = <<Call("cmc"), Send("cmc"), Return("cmc"), Call("cg"), Send("cg"), Return("cg")>>

\* the identifier of a ticker for the secondary provider
TranslatedTicker(ticker) ==
    LET l == ToLower(ticker)
    IN IF Len(l) = 1 /\ l[1] \in DOMAIN coinIDMap THEN <<coinIDMap[l[1]]>> ELSE l

\* C7: when the primary provider reports "not found" (nil error) and the
\* secondary returns quote data, ProcessTask returns a nil error and a text
\* whose footer names COINGECKO and not the primary; the primary was asked
\* for the ticker as typed and the secondary for its getCoinID translation.
C7_FallbackAttributesSecondary ==
    (Multi /\ Done /\ NotFoundByCMC /\ cg.returned /\ ~cg.err /\ IsQuote(cg.text)) =>
        /\ ~result.err
        /\ IsRendered(result.text)
        /\ Footer(result.text) = <<FooterOpen, "COINGECKO", FooterClose>>
        /\ ~Contains(result.text, "COINMARKETCAP")
        /\ cmc.arg = Fields(input)[2]
        /\ cg.arg = TranslatedTicker(Fields(input)[2])

C7_Witness ==
    /\ Multi /\ Done /\ NotFoundByCMC /\ cg.returned /\ ~cg.err /\ IsQuote(cg.text)
    /\ Fields(input)[2] = <<"BTC">>
    /\ cg.arg = <<"bitcoin">>

NotFoundByCG == cg.returned /\ ~cg.err /\ Contains(cg.text, CGNotFoundPhrase)

\* C8: when both centralized providers report "not found", ProcessTask
\* returns, with a nil error, one message that contains the lookup target,
\* names CoinMarketCap and CoinGecko and tells the user to check the symbol
\* or use a contract address; no formatted quote is returned.
C8_AggregateNotFound ==
    (Multi /\ Done /\ NotFoundByCMC /\ NotFoundByCG) =>
        /\ ~result.err
        /\ Within(Fields(input)[2], result.text)
        /\ Contains(result.text, "CoinMarketCap")
        /\ Contains(result.text, "CoinGecko")
        /\ Contains(result.text,
             ". Please ensure the symbol is correct or use a contract address for DEX listings.")
        /\ ~IsRendered(result.text)

C8_Witness ==
    /\ Multi /\ Done /\ NotFoundByCMC /\ NotFoundByCG
    /\ Fields(input)[2] = <<"0x", "h37">>

\* the calls of the three provider clients of this invocation
ClientCalls == {cmc, cg, dex}

\* the client got an HTTP response (client.Do returned without error)
GotResponse(c) == c.returned /\ c.sent /\ c.ok

\* the text says that the provider returned the status code
StatusText(text, status) ==
    \/ Within(<<" CoinGecko API returned status ">> \o Digits(status), text)
    \/ Within(<<" API returned status ">> \o Digits(status), text)

\* C11: in each of the three provider clients, a response with a non-success
\* status gives a text that reports the status code, with a nil error,
\* whatever the body is; a response gives a non-nil error only when it has
\* the success status and its body is not JSON.
C11_NonSuccessStatusIsText ==
    Multi => \A c \in ClientCalls :
        GotResponse(c) =>
            /\ c.status # StatusOK => ~c.err /\ StatusText(c.text, c.status)
            /\ c.err => c.status = StatusOK /\ ~c.json

\* ------------------------------------------------------------------------
\* Specification of the formatter: the multi-provider program on two
\* commands, with every provider answer of the bounded sets below
\* ------------------------------------------------------------------------
AllCMC == {CMCData(c, q) : c \in Changes, q \in Supplies}
AllCG == {CGData(c, q) : c \in Changes, q \in Supplies}

\* atoms of a chain id or base-token symbol sent by the on-chain provider
FieldAlphabet == {"PEPE", ";", ":", "fdv", "token_source", "circulating_supply"}
\* atoms of a 24h-change value
ChangeAlphabet == {"-", "+", "5", "0", ".", "%", "NaN", "a"}
PriceStrings == {<<>>, <<"1", ".", "5">>, <<"a">>}

\* atoms of the value of a repeated field
ValueAlphabet == {"a", ":"}

\* base-token symbols: any short string, the strings that carry a pair
\* with the key 24h_change and any short value, and the strings that carry a
\* segment without ":" and then a second fdv pair with any short value
Symbols ==
    SeqsUpTo(FieldAlphabet, MaxSymLen)
      \cup {<<"PEPE", ";", "24h_change", ":">> \o c : c \in SeqsUpTo(ChangeAlphabet, MaxChangeLen)}
      \cup {<<";", "PEPE", ";", "fdv", ":">> \o v : v \in SeqsUpTo(ValueAlphabet, MaxSymLen)}

AllDex ==
    {DexPair(c, <<"PEPE">>, p) : c \in SeqsUpTo(FieldAlphabet, MaxChainLen), p \in PriceStrings}
      \cup {DexPair(<<"ethereum">>, sym, <<"1", ".", "5">>) : sym \in Symbols}

FmtInputs == {<<"/", "price", " ", "BTC">>, <<"/", "market", " ", "0x", "h38">>}

InitFmt == Init /\ variant = "multi"

NextFmt ==
    \/ ProcessTask(FmtInputs)
    \/ \E h \in Replies(DexDocs(AllDex)) : DexReturns(h)
    \/ \E h \in Replies(CMCDocs(AllCMC)) : CMCReturns(h)
    \/ \E h \in Replies(AllCG) : CGReturns(h)
    \/ HostTakesResult

SpecFmt == InitFmt /\ [][NextFmt]_vars

\* ------------------------------------------------------------------------
\* Properties of the formatter
\* ------------------------------------------------------------------------
\* the provider text that ProcessTask handed to formatOutput
RenderedSource == IF dex.called THEN dex.text ELSE IF cg.called THEN cg.text ELSE cmc.text
Rendered == Multi /\ Done /\ IsRendered(result.text)

Lines(text) == Split(text, NL)
\* the lines of the result that start with the label
Labelled(label) ==
    LET ls == Lines(result.text)
    IN {i \in 1..Len(ls) : ls[i] # <<>> /\ ls[i][1] = label}

\* the fields written in a key-value string: every key:value pair of it
FieldsOf(raw) ==
    LET segs == Split(raw, ";")
    IN {<<SubSeq(segs[i], 1, IndexOf(segs[i], ":") - 1),
          SubSeq(segs[i], IndexOf(segs[i], ":") + 1, Len(segs[i]))>> :
           i \in {j \in 1..Len(segs) : Contains(segs[j], ":")}}

\* the fields the template has a line for, and the label of the line
TemplateKeys ==
    {"token_source", "current_price_usd", "24h_change", "market_cap_usd", "volume_24h",
     "fdv", "circulating_supply"}
LabelOf(k) ==
    CASE k = "token_source" -> FooterOpen
      [] k = "current_price_usd" -> PriceLabel
      [] k = "24h_change" -> ChangeLabel
      [] k = "market_cap_usd" -> MarketCapLabel
      [] k = "volume_24h" -> VolumeLabel
      [] k = "fdv" -> FdvLabel
      [] OTHER -> SupplyLabel

\* the lines that show the value v of the field k
LinesShowing(k, v) ==
    CASE k = "token_source" -> {<<FooterOpen>> \o ToUpper(v) \o <<FooterClose>>}
      [] k = "24h_change" ->
           {<<ChangeLabel>> \o v, <<ChangeLabel, GreenMarker>> \o v \o <<MarkerClose>>,
            <<ChangeLabel, RedMarker>> \o v \o <<MarkerClose>>}
      [] OTHER -> {<<LabelOf(k)>> \o v}

\* a value that counts as present: not empty, and not the placeholder that
\* formatQuantity prints for a missing supply
PresentValue(k, v) == v # <<>> /\ ~(k = "circulating_supply" /\ v = <<"N/A">>)

\* C9 (as claimed): for every key-value string a provider client produces,
\* every field that is present and non-empty in the string is rendered as
\* exactly one labelled line, and a field that is absent or empty gets no
\* line.
C9_EveryFieldOneLine ==
    (Rendered /\ IsQuote(RenderedSource)) =>
        \A k \in TemplateKeys :
            LET vs == {f[2] : f \in {g \in FieldsOf(RenderedSource) :
                                        g[1] = <<k>> /\ PresentValue(k, g[2])}}
                ls == Lines(result.text)
            IN /\ \A v \in vs :
                     /\ Cardinality(Labelled(LabelOf(k))) = 1
                     /\ \A i \in Labelled(LabelOf(k)) : ls[i] \in LinesShowing(k, v)
               /\ vs = {} => Labelled(LabelOf(k)) = {}

\* the 24h-change value formatOutput works on, and its parse
ChangeValue == MapGet(ParsePairs(RenderedSource), <<"24h_change">>)
ChangeParse == ParseFloat(TrimSuffix(ChangeValue, "%"))
ParsesNonNegative ==
    /\ ~ChangeParse.err
    /\ \/ ChangeParse.val.kind = "num" /\ (~ChangeParse.val.neg \/ ChangeParse.val.mant = 0)
       \/ ChangeParse.val.kind = "inf" /\ ~ChangeParse.val.neg
ParsesNegative ==
    /\ ~ChangeParse.err
    /\ \/ ChangeParse.val.kind = "num" /\ ChangeParse.val.neg /\ ChangeParse.val.mant > 0
       \/ ChangeParse.val.kind = "inf" /\ ChangeParse.val.neg
Unparseable == ChangeValue # <<>> /\ ChangeParse.err

\* the change lines of the result are exactly the given ones
ChangeLinesAre(lines) ==
    LET ls == Lines(result.text)
    IN /\ Cardinality(Labelled(ChangeLabel)) = Cardinality(lines)
       /\ \A i \in Labelled(ChangeLabel) : ls[i] \in lines

GreenLine == <<ChangeLabel, GreenMarker>> \o ChangeValue \o <<MarkerClose>>
RedLine == <<ChangeLabel, RedMarker>> \o ChangeValue \o <<MarkerClose>>
VerbatimLine == <<ChangeLabel>> \o ChangeValue

ExactlyOne(conds) == Cardinality({i \in 1..Len(conds) : conds[i]}) = 1

\* C10 (as claimed): a change value that parses to a number >= 0 gets the
\* positive marker and a "+", one that parses to a negative number gets the
\* negative marker and no extra sign, an empty one gets no change line, a
\* non-empty one that does not parse is printed verbatim without a marker;
\* exactly one of these four cases applies to every change value.
C10_FourCases ==
    Rendered =>
        /\ ParsesNonNegative => ChangeLinesAre({GreenLine})
        /\ ParsesNegative => ChangeLinesAre({RedLine})
        /\ ChangeValue = <<>> => ChangeLinesAre({})
        /\ Unparseable => ChangeLinesAre({VerbatimLine})
        /\ ExactlyOne(<<ParsesNonNegative, ParsesNegative, ChangeValue = <<>>, Unparseable>>)

\* formatOutput was applied to the text of a provider client
Formatted ==
    /\ Multi /\ Done
    /\ \/ dex.returned /\ ~dex.err
       \/ cmc.returned /\ CMCSucceeded(cmc.text, cmc.err)
       \/ cg.returned /\ CGSucceeded(cg.text, cg.err)

\* the ";"-separated segments of the text, and those that have a ":"
Segments == Split(RenderedSource, ";")
WellFormed == {i \in 1..Len(Segments) : Contains(Segments[i], ":")}
KeyOf(seg) == SubSeq(seg, 1, IndexOf(seg, ":") - 1)
ValueOf(seg) == SubSeq(seg, IndexOf(seg, ":") + 1, Len(seg))

\* the segments whose text before the first ":" is the key
Occurrences(k) == {i \in WellFormed : KeyOf(Segments[i]) = <<k>>}
\* everything after the first ":" of the last of them; "" if there is none
LastValue(k) ==
    IF Occurrences(k) = {} THEN <<>>
    ELSE ValueOf(Segments[CHOOSE i \in Occurrences(k) : \A j \in Occurrences(k) : j <= i])

\* a[1]; a[2]; ... with the segments outside keep left out
RECURSIVE JoinKept(_, _, _)
JoinKept(segs, keep, i) ==
    IF i > Len(segs) THEN <<>>
    ELSE IF i \notin keep THEN JoinKept(segs, keep, i + 1)
    ELSE LET rest == JoinKept(segs, keep \ {i}, i + 1)
         IN IF \E j \in keep : j > i THEN segs[i] \o <<";">> \o rest ELSE segs[i]

\* the fields whose line is printed whatever the value is
AlwaysPrinted == {"token_source", "current_price_usd"}

\* C12: formatOutput gives a message for every provider text; a segment
\* without ":" is dropped and changes nothing of the message; for every
\* field of the template, the value rendered is everything after the first
\* ":" of the last segment that has the field's key, whatever the other
\* segments are.
C12_ParsingIsSegmentLocal ==
    Formatted =>
        /\ ~result.err /\ IsRendered(result.text)
        /\ formatOutput(JoinKept(Segments, WellFormed, 1)) = result.text
        /\ \A k \in TemplateKeys :
              LET v == LastValue(k)
                  ls == Lines(result.text)
              IN IF k \in AlwaysPrinted \/ PresentValue(k, v)
                 THEN /\ Cardinality(Labelled(LabelOf(k))) = 1
                      /\ \A i \in Labelled(LabelOf(k)) : ls[i] \in LinesShowing(k, v)
                 ELSE Labelled(LabelOf(k)) = {}

\* a text with a segment that has no ":", two segments with the key fdv,
\* the last of them with a ":" in its value
C12_Witness ==
    /\ Formatted /\ dex.called
    /\ \E i \in 1..Len(Segments) : Segments[i] = <<"PEPE">>
    /\ Cardinality(Occurrences("fdv")) = 2
    /\ LastValue("fdv") = <<"a", ":", "a">>
    /\ \E i \in Labelled(FdvLabel) : Lines(result.text)[i] = <<FdvLabel, "a", ":", "a">>

====
